---- MODULE Spec2Model ----
(***************************************************************************)
(* Longevity Quotient (LQ) v1.1 calculator, src/LQv1_1.py.                 *)
(*                                                                         *)
(* Python floats are modelled in fixed point:                              *)
(*   raw measurements, REF means and SDs   in units of 1/RawScale,         *)
(*   standardized deviations z, logarithms in units of 1/ZScale,           *)
(*   probabilities and scores              in units of 1/One,              *)
(* so the score 100.0 is 100 * One.  Every division rounds down where a    *)
(* float division rounds to nearest.  math.erf and math.log are library    *)
(* functions; they are modelled by tables of their values.                 *)
(***************************************************************************)
EXTENDS Integers, Sequences, FiniteSets, TLC

RawScale == 100
ZScale == 1000
One == 10000

\* Bounds of the model.
MaxEdits == 1
ZSpan == 4
MaxCalls == 3
MaxRows == 3

VARIABLES
    REF,         \* module global REF (a mutable dict of dicts)
    VAR_ORDER,   \* module global VAR_ORDER (a mutable list)
    inputs,      \* the raw input record a caller holds and passes to compute_single
    cac_method,  \* the CAC method passed to compute_single
    out,         \* outcome of the latest compute_single call
    cres,        \* outcome of the latest direct normalize_cac call
    prev,        \* an earlier compute_single call: its arguments and outcome
    ncalls,      \* number of compute_single calls made
    zcall,       \* latest normalize_z call: key, x and outcome
    zprev,       \* the normalize_z call before it
    rows,        \* bulk mode: the uploaded table, one raw input record per row
    bi,          \* bulk mode: number of rows consumed
    results      \* bulk mode: the output rows produced so far

vars == <<REF, VAR_ORDER, inputs, cac_method, out, cres, prev, ncalls, zcall, zprev, rows, bi, results>>

(***************************************************************************)
(* Module constants                                                        *)
(***************************************************************************)

\* REF, lines 21-40: means and SDs in hundredths.
RefTable ==
    [ ogtt_2h      |-> [M |-> 12000, S |-> 3500, D |-> -1],
      apob         |-> [M |->  9000, S |-> 2500, D |-> -1],
      vo2max       |-> [M |->  3600, S |->  800, D |->  1],
      crp          |-> [M |->   150, S |->   80, D |-> -1],
      bmi          |-> [M |->  2600, S |->  500, D |-> -1],
      packyrs      |-> [M |->   200, S |->  500, D |-> -1],
      moca         |-> [M |->  2700, S |->  200, D |->  1],
      mvpa         |-> [M |-> 15000, S |-> 7500, D |->  1],
      hrv          |-> [M |->  3500, S |-> 1500, D |->  1],
      phq9         |-> [M |->   400, S |->  400, D |-> -1],
      alt          |-> [M |->  2500, S |-> 1200, D |-> -1],
      egfr         |-> [M |->  9500, S |-> 1500, D |->  1],
      bmd_t        |-> [M |->   -50, S |->  100, D |->  1],
      truage_delta |-> [M |->   200, S |->  500, D |-> -1],
      small_hdl    |-> [M |->  2500, S |->  500, D |->  1],
      rem_pct      |-> [M |->  2000, S |->  500, D |->  1],
      grip         |-> [M |->  3800, S |-> 1000, D |->  1],
      swls         |-> [M |->  2400, S |->  600, D |->  1] ]

\* VAR_ORDER, lines 41-45.
VarOrder ==
    << "ogtt_2h", "apob", "vo2max", "crp", "bmi", "packyrs", "moca", "mvpa", "cac",
       "hrv", "phq9", "alt", "egfr", "bmd_t", "truage_delta", "small_hdl", "rem_pct",
       "grip", "swls", "rpdqs" >>

Range(s) == {s[i] : i \in 1..Len(s)}

\* A module load that leaves one variable out of REF.
LoadModule_short ==
    /\ REF = [k \in DOMAIN RefTable \ {"swls"} |-> RefTable[k]]
    /\ VAR_ORDER = VarOrder

\* Lines 21-45, run once when the module is loaded.
LoadModule ==
    /\ REF = RefTable
    /\ VAR_ORDER = VarOrder

(***************************************************************************)
(* Outcomes of a call: a returned value, or a raised exception.            *)
(***************************************************************************)
Return(v) == [err |-> "none", v |-> v]
Raise(e) == [err |-> e, v |-> 0]

Max2(a, b) == IF a >= b THEN a ELSE b
Min2(a, b) == IF a <= b THEN a ELSE b

(***************************************************************************)
(* math.erf and math.log                                                   *)
(***************************************************************************)

\* 0.5 * (1 + erf(z / sqrt 2)) at z = 0.0, 0.1, ..., 4.0, in units of 1/One.
PhiTab ==
    << 5000, 5398, 5793, 6179, 6554, 6915, 7257, 7580, 7881, 8159,
       8413, 8643, 8849, 9032, 9192, 9332, 9452, 9554, 9641, 9713,
       9772, 9821, 9861, 9893, 9918, 9938, 9953, 9965, 9974, 9981,
       9987, 9990, 9993, 9995, 9997, 9998, 9998, 9999, 9999, 10000, 10000 >>

\* The table's step and last point, in units of 1/ZScale.
PhiStep == ZScale \div 10
PhiTop == 4 * ZScale

\* normal_cdf for z >= 0: linear interpolation between the table's points.
PhiPos(z) ==
    IF z >= PhiTop THEN One
    ELSE LET i == z \div PhiStep
             r == z % PhiStep
         IN  PhiTab[i + 1] + ((PhiTab[i + 2] - PhiTab[i + 1]) * r) \div PhiStep

\* normal_cdf, lines 55-56; erf is odd, so normal_cdf(-z) = 1 - normal_cdf(z).
normal_cdf(z) == IF z >= 0 THEN PhiPos(z) ELSE One - PhiPos(-z)

\* math.log at the arguments the model uses (hundredths), in units of 1/ZScale.
LogTab ==
    (50 :> -693) @@ (100 :> 0) @@ (5100 :> 3932) @@ (9900 :> 4595) @@
    (10000 :> 4605) @@ (10100 :> 4615) @@ (10200 :> 4625) @@ (25100 :> 5525) @@
    (40000 :> 5991) @@ (40100 :> 5994) @@ (50100 :> 6217)

\* math.log raises ValueError ("math domain error") for an argument <= 0.
math_log(a) == IF a <= 0 THEN Raise("ValueError") ELSE Return(LogTab[a])

(***************************************************************************)
(* Normalizers                                                             *)
(***************************************************************************)

\* A clamp that returns its argument as it is.
clamp_off(v) == v

\* clamp, lines 58-59, with its defaults lo=0.0, hi=100.0.
clamp(v) == Max2(0, Min2(100 * One, v))

\* A normalize_z that leaves the direction D out.
normalize_z_undirected(x, key) ==
    IF key \notin DOMAIN REF THEN Raise("KeyError")
    ELSE LET p == REF[key]
             z == ((x - p.M) * ZScale) \div p.S
         IN  Return(clamp(100 * normal_cdf(z)))

\* normalize_z, lines 61-63.  REF[key] raises KeyError for an unknown key.
normalize_z(x, key) ==
    IF key \notin DOMAIN REF THEN Raise("KeyError")
    ELSE LET p == REF[key]
             z == p.D * (((x - p.M) * ZScale) \div p.S)
         IN  Return(clamp(100 * normal_cdf(z)))

\* normalize_rpdqs, line 65.
normalize_rpdqs(x) == Return(clamp(((x * One) \div (52 * RawScale)) * 100))

\* normalize_cac with method "ln", lines 68-69.
cac_ln(value) ==
    LET la == math_log(value + 1 * RawScale)
        lb == math_log(100 * RawScale)
    IN  IF la.err # "none" THEN la
        ELSE Return(clamp(100 * normal_cdf(-(la.v - lb.v))))

\* A piecewise branch whose first linear piece ends before 100, not at it.
cac_piecewise_open(value) ==
    IF value = 0 THEN Return(100 * One)
    ELSE IF value >= 400 * RawScale THEN Return(0)
    ELSE IF value < 100 * RawScale
         THEN Return(clamp(100 * One - (2 * value * One) \div (10 * RawScale)))
    ELSE Return(clamp(50 * One - ((value - 100 * RawScale) * One) \div (10 * RawScale)))

\* normalize_cac past the "ln" test, lines 70-74.
cac_piecewise(value) ==
    IF value = 0 THEN Return(100 * One)
    ELSE IF value >= 400 * RawScale THEN Return(0)
    ELSE IF value <= 100 * RawScale
         THEN Return(clamp(100 * One - (2 * value * One) \div (10 * RawScale)))
    ELSE Return(clamp(50 * One - ((value - 100 * RawScale) * One) \div (10 * RawScale)))

\* A normalize_cac that rejects a method it does not know.
normalize_cac_strict(value, method) ==
    IF method = "ln" THEN cac_ln(value)
    ELSE IF method = "piecewise" THEN cac_piecewise(value)
    ELSE Raise("InvalidMethod")

\* A normalize_cac that rejects a negative value.
normalize_cac_nonneg(value, method) ==
    IF value < 0 THEN Raise("InvalidInput")
    ELSE IF method = "ln" THEN cac_ln(value)
    ELSE cac_piecewise(value)

\* normalize_cac, lines 67-74: every method other than "ln" is the piecewise one.
normalize_cac(value, method) ==
    IF method = "ln" THEN cac_ln(value) ELSE cac_piecewise(value)

(***************************************************************************)
(* compute_single                                                          *)
(***************************************************************************)

\* Lines 78-97: the assignments N[key] = <normalizer>(inputs[key], ...), in order.
Assignments ==
    << <<"ogtt_2h", "z">>, <<"apob", "z">>, <<"vo2max", "z">>, <<"crp", "z">>,
       <<"bmi", "z">>, <<"packyrs", "z">>, <<"moca", "z">>, <<"mvpa", "z">>,
       <<"cac", "cac">>, <<"hrv", "z">>, <<"phq9", "z">>, <<"alt", "z">>,
       <<"egfr", "z">>, <<"bmd_t", "z">>, <<"truage_delta", "z">>,
       <<"small_hdl", "z">>, <<"rem_pct", "z">>, <<"grip", "z">>, <<"swls", "z">>,
       <<"rpdqs", "rpdqs">> >>

\* f"N_{k}", line 101.
NKey ==
    [ ogtt_2h |-> "N_ogtt_2h", apob |-> "N_apob", vo2max |-> "N_vo2max",
      crp |-> "N_crp", bmi |-> "N_bmi", packyrs |-> "N_packyrs", moca |-> "N_moca",
      mvpa |-> "N_mvpa", cac |-> "N_cac", hrv |-> "N_hrv", phq9 |-> "N_phq9",
      alt |-> "N_alt", egfr |-> "N_egfr", bmd_t |-> "N_bmd_t",
      truage_delta |-> "N_truage_delta", small_hdl |-> "N_small_hdl",
      rem_pct |-> "N_rem_pct", grip |-> "N_grip", swls |-> "N_swls",
      rpdqs |-> "N_rpdqs" ]

EmptyRec == [k \in {} |-> 0]
NoCall == [status |-> "none", exc |-> "none", rec |-> EmptyRec]

\* One assignment of lines 78-97: inputs[key] raises KeyError for a missing key.
Assign(a, ins, method) ==
    IF a[1] \notin DOMAIN ins THEN Raise("KeyError")
    ELSE IF a[2] = "cac" THEN normalize_cac(ins[a[1]], method)
    ELSE IF a[2] = "rpdqs" THEN normalize_rpdqs(ins[a[1]])
    ELSE normalize_z(ins[a[1]], a[1])

RECURSIVE SumOver(_, _, _)
\* sum(N[v] for v in order), from position i on.
SumOver(N, order, i) ==
    IF i > Len(order) THEN 0 ELSE N[order[i]] + SumOver(N, order, i + 1)

\* A composite that divides by the number of REF entries.
composite_by_ref(N) == SumOver(N, VAR_ORDER, 1) \div Cardinality(DOMAIN REF)

\* comp, line 98.
composite(N) == SumOver(N, VAR_ORDER, 1) \div 20

\* LQ, line 99.
LQ(comp) == Max2(300 * One, Min2(850 * One, 300 * One + (55 * comp) \div 10))

\* An exception handled inside compute_single: the sub-scores assigned so far are returned.
Propagate_partial(exc, done) == [status |-> "raised", exc |-> exc, rec |-> done]

\* An exception leaves compute_single: the sub-scores assigned so far (the local N)
\* are lost and nothing is returned.
Propagate(exc, done) == [status |-> "raised", exc |-> exc, rec |-> EmptyRec]

\* compute_single, lines 76-102.
compute_single(ins, method) ==
    LET n == Len(Assignments)
        res == [i \in 1..n |-> Assign(Assignments[i], ins, method)]
        bad == {i \in 1..n : res[i].err # "none"}
        first == CHOOSE i \in bad : \A j \in bad : i <= j
        upto(m) == [key \in {NKey[Assignments[i][1]] : i \in 1..m} |->
                      res[CHOOSE i \in 1..m : NKey[Assignments[i][1]] = key].v]
        N == [k \in {Assignments[i][1] : i \in 1..n} |->
                res[CHOOSE i \in 1..n : Assignments[i][1] = k].v]
    IN  IF bad # {} THEN Propagate(res[first].err, upto(first - 1))
        ELSE IF \E i \in 1..Len(VAR_ORDER) : VAR_ORDER[i] \notin DOMAIN N
        THEN Propagate("KeyError", upto(n))
        ELSE [status |-> "returned", exc |-> "none",
              rec |-> [key \in {"composite", "LQ"} \cup {NKey[k] : k \in DOMAIN N} |->
                         IF key = "composite" THEN composite(N)
                         ELSE IF key = "LQ" THEN LQ(composite(N))
                         ELSE N[CHOOSE k \in DOMAIN N : NKey[k] = key]]]

\* prefill, lines 104-111.
prefill(which) ==
    IF which = "high"
    THEN [ ogtt_2h |-> 8500, apob |-> 6000, vo2max |-> 5500, crp |-> 40, bmi |-> 2250,
           packyrs |-> 0, moca |-> 2900, mvpa |-> 30000, cac |-> 0, hrv |-> 7500,
           phq9 |-> 0, alt |-> 1800, egfr |-> 11000, bmd_t |-> 100,
           truage_delta |-> -500, small_hdl |-> 4000,
           rem_pct |-> (120 * 100 * RawScale) \div 420, grip |-> 5500, swls |-> 3300,
           rpdqs |-> 4800 ]
    ELSE [ ogtt_2h |-> 15200, apob |-> 10700, vo2max |-> 3400, crp |-> 200, bmi |-> 2960,
           packyrs |-> 0, moca |-> 2500, mvpa |-> 11250, cac |-> 9800, hrv |-> 4700,
           phq9 |-> 700, alt |-> 4200, egfr |-> 8200, bmd_t |-> -120,
           truage_delta |-> 200, small_hdl |-> 1020,
           rem_pct |-> (52 * 100 * RawScale) \div 420, grip |-> 3800, swls |-> 2600,
           rpdqs |-> 3500 ]

(***************************************************************************)
(* Inputs the model draws                                                  *)
(***************************************************************************)

\* "ln" and "piecewise" are the selectbox's options (line 114); a direct caller
\* may pass any other string.
Methods == {"ln", "piecewise", "logarithmic"}

\* Raw CAC values (hundredths), among them negative ones and the branch boundaries.
CacVals == {-200, -100, -50, 0, 5000, 9800, 9900, 10000, 10100, 25000, 39900, 40000, 50000}

\* Raw rPDQS values (hundredths), among them values outside 0..52.
RpdqsVals == {-500, 0, 2600, 5200, 10400}

\* Raw values of a variable: for a REF variable, its mean and points 1 and 6 SDs away.
Vals(k) ==
    IF k = "cac" THEN CacVals
    ELSE IF k = "rpdqs" THEN RpdqsVals
    ELSE {RefTable[k].M + j * RefTable[k].S : j \in {-6, -1, 0, 1, 6}}

\* A record with one field set anew, or with one field missing.
SetField(r) == UNION {{[r EXCEPT ![k] = v] : v \in Vals(k)} : k \in DOMAIN r}
DropField(r) == {[j \in DOMAIN r \ {k} |-> r[j]] : k \in DOMAIN r}

RECURSIVE Edited(_, _)
Edited(S, n) ==
    IF n = 0 THEN S
    ELSE Edited(S \cup UNION {SetField(r) \cup DropField(r) : r \in S}, n - 1)

\* The raw input records: a preset with at most MaxEdits fields edited.
RawRecords == Edited({prefill("typical"), prefill("high")}, MaxEdits)

(***************************************************************************)
(* Scoring one record: the caller's record and method are drawn, then      *)
(* compute_single and normalize_cac are applied to them.                   *)
(***************************************************************************)
NoZ == [key |-> "none", x |-> 0, res |-> Return(0)]
NoCres == [err |-> "nocall", v |-> 0]
NoPrev == [ins |-> EmptyRec, method |-> "none", res |-> NoCall]

Init ==
    /\ LoadModule
    /\ inputs \in RawRecords
    /\ cac_method \in Methods
    /\ out = NoCall /\ cres = NoCres
    /\ prev = NoPrev /\ ncalls = 0
    /\ zcall = NoZ /\ zprev = NoZ
    /\ rows = <<>> /\ bi = 0 /\ results = <<>>

\* A caller scores the record it holds.
Score ==
    /\ out' = compute_single(inputs, cac_method)
    /\ UNCHANGED <<REF, VAR_ORDER, inputs, cac_method, cres, prev, ncalls, zcall, zprev,
                   rows, bi, results>>

\* A caller normalizes the record's CAC value alone.
NormalizeCac ==
    /\ "cac" \in DOMAIN inputs
    /\ cres' = normalize_cac(inputs["cac"], cac_method)
    /\ UNCHANGED <<REF, VAR_ORDER, inputs, cac_method, out, prev, ncalls, zcall, zprev,
                   rows, bi, results>>

Next == Score \/ NormalizeCac

Spec == Init /\ [][Next]_vars

(***************************************************************************)
(* Properties of scoring one record                                        *)
(***************************************************************************)
Returned == out.status = "returned"
CacCalled == cres.err # "nocall"
OutputKeys == {"composite", "LQ"} \cup {NKey[k] : k \in Range(VarOrder)}

\* C1: every one of the 20 normalized sub-scores of a returned record lies in
\* [0, 100], whatever the raw record and the CAC method.
C1_SubScoresInRange ==
    Returned =>
        \A k \in Range(VAR_ORDER) :
            /\ out.rec[NKey[k]] >= 0
            /\ out.rec[NKey[k]] <= 100 * One

\* A record whose rPDQS is above its full scale of 52 was scored, and the
\* sub-score was clamped to 100.
C1_Witness ==
    /\ Returned
    /\ inputs["rpdqs"] > 52 * RawScale
    /\ out.rec["N_rpdqs"] = 100 * One

RECURSIVE SubScoreSum(_, _)
\* The sum of the sub-scores of a returned record, from position i of VAR_ORDER on.
SubScoreSum(rec, i) ==
    IF i > Len(VAR_ORDER) THEN 0 ELSE rec[NKey[VAR_ORDER[i]]] + SubScoreSum(rec, i + 1)

\* C2: composite is the sum of the 20 sub-scores of VAR_ORDER divided by 20, LQ is
\* clamp(300 + 5.5 * composite, 300, 850), and so LQ is in [300, 850].
C2_CompositeAndLQ ==
    Returned =>
        LET c == out.rec["composite"]
            l == out.rec["LQ"]
            raw == 300 * One + (11 * c) \div 2
        IN  /\ Len(VAR_ORDER) = 20
            /\ c = SubScoreSum(out.rec, 1) \div 20
            /\ l = (IF raw < 300 * One THEN 300 * One
                    ELSE IF raw > 850 * One THEN 850 * One ELSE raw)
            /\ l >= 300 * One
            /\ l <= 850 * One

\* A record was scored to a composite above 0 and an LQ strictly inside (300, 850).
C2_Witness ==
    /\ Returned
    /\ out.rec["composite"] > 0
    /\ out.rec["LQ"] > 300 * One
    /\ out.rec["LQ"] < 850 * One

\* The piecewise score of a value, from the branch table of section 4.5; a value
\* below 0 falls into the first linear piece and is clamped.
ExpectedPiecewise(value) ==
    IF value = 0 THEN 100 * One
    ELSE IF value >= 400 * RawScale THEN 0
    ELSE IF value < 0 THEN 100 * One
    ELSE IF value <= 100 * RawScale THEN 100 * One - (value * One) \div (5 * RawScale)
    ELSE 50 * One - ((value - 100 * RawScale) * One) \div (10 * RawScale)

\* C3 as claimed: normalize_cac fails with InvalidMethod for every method other
\* than the two it knows, and returns no score for it.
C3_UnknownMethodRaises ==
    (CacCalled /\ cac_method \notin {"ln", "piecewise"}) => cres.err = "InvalidMethod"

\* C3 as the code has it: normalize_cac raises nothing for a method it does not
\* know; every method other than "ln" returns the piecewise score.
C3_UnknownMethodIsPiecewise ==
    (CacCalled /\ cac_method # "ln") =>
        /\ cres.err = "none"
        /\ cres.v = ExpectedPiecewise(inputs["cac"])

\* normalize_cac was called with the method "logarithmic" and returned the
\* piecewise score of 250, which is 35.
C3_Witness ==
    /\ CacCalled
    /\ cac_method = "logarithmic"
    /\ inputs["cac"] = 250 * RawScale
    /\ cres = Return(35 * One)

\* C4 as claimed: normalize_cac fails with InvalidInput whenever value < 0, under
\* both methods.
C4_NegativeRaises ==
    (CacCalled /\ inputs["cac"] < 0) => cres.err = "InvalidInput"

\* C4 as the code has it: the sign of value is not tested.  With a method other
\* than "ln" a negative value scores 100; with "ln" a value in (-1, 0) scores
\* within [0, 100] and a value <= -1 fails with math.log's ValueError.
C4_NegativeNotTested ==
    (CacCalled /\ inputs["cac"] < 0) =>
        IF cac_method # "ln" THEN cres = Return(100 * One)
        ELSE IF inputs["cac"] <= -1 * RawScale THEN cres.err = "ValueError"
        ELSE cres.err = "none" /\ cres.v >= 0 /\ cres.v <= 100 * One

\* normalize_cac was called with the piecewise method on a negative value and
\* returned 100.
C4_Witness ==
    /\ CacCalled
    /\ cac_method = "piecewise"
    /\ inputs["cac"] < 0
    /\ cres = Return(100 * One)

\* C5: the piecewise method returns 100 for 0, 0 for every value >= 400,
\* 100 - 0.2 * value for 0 < value <= 100 (80 at 100) and 50 - 0.1 * (value - 100)
\* for 100 < value < 400.
C5_Piecewise ==
    (CacCalled /\ cac_method = "piecewise" /\ inputs["cac"] >= 0) =>
        LET value == inputs["cac"]
        IN  /\ cres.err = "none"
            /\ value = 0 => cres.v = 100 * One
            /\ value >= 400 * RawScale => cres.v = 0
            /\ (0 < value /\ value <= 100 * RawScale) =>
                   cres.v = 100 * One - (2 * value * One) \div (10 * RawScale)
            /\ value = 100 * RawScale => cres.v = 80 * One
            /\ (100 * RawScale < value /\ value < 400 * RawScale) =>
                   cres.v = 50 * One - ((value - 100 * RawScale) * One) \div (10 * RawScale)

\* The piecewise method was applied to the boundary value 100 and returned 80.
C5_Witness ==
    /\ CacCalled
    /\ cac_method = "piecewise"
    /\ inputs["cac"] = 100 * RawScale
    /\ cres = Return(80 * One)

\* The variables compute_single hands to each normalizer.
KeysOf(tag) == {Assignments[i][1] : i \in {j \in 1..Len(Assignments) : Assignments[j][2] = tag}}

\* REF holds nz variables; compute_single applies normalize_z to exactly those, the
\* CAC normalizer to one variable and the ratio normalizer to one, and the three
\* groups are the 20 variables of VAR_ORDER.
Partition(nz) ==
    /\ Cardinality(DOMAIN REF) = nz
    /\ KeysOf("z") = DOMAIN REF
    /\ Cardinality(KeysOf("cac")) = 1
    /\ Cardinality(KeysOf("rpdqs")) = 1
    /\ KeysOf("z") \cup KeysOf("cac") \cup KeysOf("rpdqs") = Range(VAR_ORDER)
    /\ Cardinality(Range(VAR_ORDER)) = 20
    /\ Returned =>
           /\ \A k \in DOMAIN REF : out.rec[NKey[k]] = normalize_z(inputs[k], k).v
           /\ \A k \in KeysOf("cac") :
                  out.rec[NKey[k]] = normalize_cac(inputs[k], cac_method).v
           /\ \A k \in KeysOf("rpdqs") : out.rec[NKey[k]] = normalize_rpdqs(inputs[k]).v

\* C6 as claimed: the Reference Table holds exactly 17 z-score variables, which with
\* the CAC variable and the ratio variable are the 20 variables of VariableOrder.
C6_SeventeenZVariables == Partition(17)

\* C6 as the code has it: REF holds exactly 18 z-score variables; 18 + 1 + 1 = 20.
C6_EighteenZVariables == Partition(18)

\* A record was scored and carries a sub-score for each of the 20 variables.
C6_Witness ==
    /\ Returned
    /\ {k \in Range(VAR_ORDER) : NKey[k] \in DOMAIN out.rec} = Range(VAR_ORDER)
    /\ Cardinality(DOMAIN out.rec) = 22

\* C8: compute_single is all or nothing.  If an input is missing or a normalizer
\* fails, the call fails and returns no record, not even a partial one; if it
\* succeeds, the record holds the 20 N_<variable> entries, composite and LQ.
C8_AllOrNothing ==
    out.status # "none" =>
        LET fails == \/ \E k \in Range(VarOrder) : k \notin DOMAIN inputs
                     \/ /\ "cac" \in DOMAIN inputs
                        /\ normalize_cac(inputs["cac"], cac_method).err # "none"
        IN  IF fails
            THEN out.status = "raised" /\ DOMAIN out.rec = {}
            ELSE out.status = "returned" /\ DOMAIN out.rec = OutputKeys

\* A call failed on the missing input swls, after 18 sub-scores had been computed.
C8_Witness ==
    /\ out.status = "raised"
    /\ out.exc = "KeyError"
    /\ DOMAIN inputs = Range(VarOrder) \ {"swls"}

(***************************************************************************)
(* normalize_z called on its own, twice in a row                           *)
(***************************************************************************)

\* Raw values of a REF variable: its mean and points up to ZSpan^2 / 4 SDs away.
ZVals(k) ==
    {RefTable[k].M + (j * (IF j < 0 THEN -j ELSE j) * RefTable[k].S) \div 4 : j \in -ZSpan..ZSpan}

InitZ ==
    /\ LoadModule
    /\ inputs = prefill("typical")
    /\ cac_method = "ln"
    /\ out = NoCall /\ cres = NoCres
    /\ prev = NoPrev /\ ncalls = 0
    /\ zcall = NoZ /\ zprev = NoZ
    /\ rows = <<>> /\ bi = 0 /\ results = <<>>

\* A caller normalizes one raw value of one REF variable.
CallNormalizeZ ==
    /\ \E key \in DOMAIN REF : \E x \in ZVals(key) :
           zcall' = [key |-> key, x |-> x, res |-> normalize_z(x, key)]
    /\ zprev' = zcall
    /\ UNCHANGED <<REF, VAR_ORDER, inputs, cac_method, out, cres, prev, ncalls, rows, bi, results>>

NextZ == CallNormalizeZ

SpecZ == InitZ /\ [][NextZ]_vars

\* C7: for every REF variable normalize_z is monotone in x by the variable's
\* direction (non-decreasing for D = +1, non-increasing for D = -1), and it
\* returns exactly 50 at the variable's mean.
C7_MonotoneAndMidpoint ==
    /\ (zcall.key # "none" /\ zcall.x = REF[zcall.key].M) => zcall.res = Return(50 * One)
    /\ (zcall.key # "none" /\ zprev.key = zcall.key /\ zprev.x <= zcall.x) =>
           /\ zprev.res.err = "none" /\ zcall.res.err = "none"
           /\ REF[zcall.key].D = 1 => zprev.res.v <= zcall.res.v
           /\ REF[zcall.key].D = -1 => zprev.res.v >= zcall.res.v

\* A variable of direction -1 was normalized at its mean (50) and then at a larger
\* value, which scored strictly less.
C7_Witness ==
    /\ zcall.key # "none" /\ zprev.key = zcall.key
    /\ REF[zcall.key].D = -1
    /\ zprev.x = REF[zcall.key].M
    /\ zprev.res = Return(50 * One)
    /\ zprev.x < zcall.x
    /\ zcall.res.v < 50 * One

(***************************************************************************)
(* compute_single called again and again                                   *)
(***************************************************************************)

\* The records of a caller that scores several records in turn: the two presets,
\* one with a negative CAC value and one with a field missing.
CallRecords ==
    { prefill("typical"), prefill("high"),
      [prefill("typical") EXCEPT !["cac"] = -2 * RawScale],
      [k \in DOMAIN prefill("typical") \ {"swls"} |-> prefill("typical")[k]] }

InitCalls ==
    /\ LoadModule
    /\ inputs \in CallRecords
    /\ cac_method \in {"ln", "piecewise"}
    /\ out = NoCall /\ cres = NoCres
    /\ prev = NoPrev /\ ncalls = 0
    /\ zcall = NoZ /\ zprev = NoZ
    /\ rows = <<>> /\ bi = 0 /\ results = <<>>

\* The caller takes up another record or method.
ChangeRecord ==
    /\ inputs' \in CallRecords
    /\ cac_method' \in {"ln", "piecewise"}
    /\ UNCHANGED <<REF, VAR_ORDER, out, cres, prev, ncalls, zcall, zprev, rows, bi, results>>

\* A compute_single that writes the CAC sub-score back into the caller's record.
Rescore_inplace ==
    /\ ncalls < MaxCalls
    /\ out' = compute_single(inputs, cac_method)
    /\ ncalls' = ncalls + 1
    /\ prev' \in {prev, [ins |-> inputs, method |-> cac_method, res |-> out']}
    /\ inputs' = IF out'.status = "returned"
                 THEN [inputs EXCEPT !["cac"] = out'.rec["N_cac"] \div (One \div RawScale)]
                 ELSE inputs
    /\ UNCHANGED <<REF, VAR_ORDER, cac_method, cres, zcall, zprev, rows, bi, results>>

\* One call of compute_single, lines 76-102: it reads REF, VAR_ORDER and its
\* arguments and assigns only to its locals N, comp, LQ and out.  The caller may
\* keep the call (arguments and outcome) to compare a later one with.
Rescore ==
    /\ ncalls < MaxCalls
    /\ out' = compute_single(inputs, cac_method)
    /\ ncalls' = ncalls + 1
    /\ prev' \in {prev, [ins |-> inputs, method |-> cac_method, res |-> out']}
    /\ UNCHANGED <<REF, VAR_ORDER, inputs, cac_method, cres, zcall, zprev, rows, bi, results>>

NextCalls == ChangeRecord \/ Rescore

SpecCalls == InitCalls /\ [][NextCalls]_vars

\* C10: scoring is pure and repeatable.  A call on the record and method of any
\* earlier call returns the identical outcome, whatever was scored in between, and
\* every call leaves the input record, REF and VAR_ORDER as they were.
C10_PureAndRepeatable ==
    [][ncalls' # ncalls =>
          /\ inputs' = inputs
          /\ REF' = REF
          /\ VAR_ORDER' = VAR_ORDER
          /\ (prev.ins = inputs /\ prev.method = cac_method) => out' = prev.res]_vars

\* The third call scored the record and method of a kept earlier call and returned
\* the same record.
C10_Witness ==
    /\ ncalls = 3
    /\ prev.ins = inputs /\ prev.method = cac_method
    /\ out = prev.res
    /\ out.status = "returned"

(***************************************************************************)
(* Bulk mode: the batch driver (section 4.8)                               *)
(***************************************************************************)

InitBatch ==
    /\ LoadModule
    /\ inputs = prefill("typical")
    /\ cac_method \in {"ln", "piecewise"}
    /\ out = NoCall /\ cres = NoCres
    /\ prev = NoPrev /\ ncalls = 0
    /\ zcall = NoZ /\ zprev = NoZ
    /\ rows \in UNION {[1..n -> CallRecords] : n \in 0..MaxRows}
    /\ bi = 0 /\ results = <<>>

\* A driver that gives up the rest of the table at the first row that fails.
ScoreRow_abort ==
    /\ bi < Len(rows)
    /\ LET r == compute_single(rows[bi + 1], cac_method)
       IN  IF r.status = "raised"
           THEN bi' = Len(rows) /\ results' = results
           ELSE bi' = bi + 1 /\ results' = Append(results, r)
    /\ UNCHANGED <<REF, VAR_ORDER, inputs, cac_method, out, cres, prev, ncalls, zcall, zprev, rows>>

\* The driver scores the next row; a failure is caught and reported in that row's
\* place.
ScoreRow ==
    /\ bi < Len(rows)
    /\ results' = Append(results, compute_single(rows[bi + 1], cac_method))
    /\ bi' = bi + 1
    /\ UNCHANGED <<REF, VAR_ORDER, inputs, cac_method, out, cres, prev, ncalls, zcall, zprev, rows>>

NextBatch == ScoreRow

SpecBatch == InitBatch /\ [][NextBatch]_vars

\* C9: the batch driver produces one output row per input row, in the same order;
\* a failing row is reported as that row's failure and neither aborts the batch
\* nor changes or drops another row's result, which is what scoring that row alone
\* produces.
C9_RowIsolation ==
    /\ bi <= Len(rows)
    /\ Len(results) = bi
    /\ \A i \in 1..Len(results) : results[i] = compute_single(rows[i], cac_method)

\* A table of three rows was scored to its end: the first and third rows failed,
\* the second was scored.
C9_Witness ==
    /\ Len(rows) = 3 /\ bi = 3
    /\ results[1].status = "raised"
    /\ results[2].status = "returned"
    /\ results[3].status = "raised"

====
